---- MODULE Spec2Model ----
(***************************************************************************)
(* Line-item extraction and product ranking of the sales dashboard         *)
(* (product_processor.py): extract_line_items_from_orders and              *)
(* get_top_products, with the Python and pandas operations they rest on.   *)
(***************************************************************************)
EXTENDS Integers, Sequences, FiniteSets, TLC

(***************************************************************************)
(* Python values.  A value carries its type; numbers are whole (a float    *)
(* keeps the tag "float"), a str is the sequence of its characters, and    *)
(* the text of a line_items cell is the sequence of its JSON lexemes.      *)
(***************************************************************************)
None == [ty |-> "NoneType"]
PyInt(n) == [ty |-> "int", n |-> n]
PyFloat(n) == [ty |-> "float", n |-> n]
PyStr(cs) == [ty |-> "str", s |-> cs]
PyList(l) == [ty |-> "list", l |-> l]
PyDict(d) == [ty |-> "dict", d |-> d]

\* The outcome of evaluating an expression: a value, or a raised exception.
Ok(v) == [exc |-> "", v |-> v]
Raise(e) == [exc |-> e, v |-> None]

(***************************************************************************)
(* json.loads over the lexemes of a text: value := null | number | string  *)
(* | [ value, ... ] | { string : value, ... }; anything else, a missing    *)
(* closing bracket or text after the value is a JSONDecodeError.           *)
(***************************************************************************)
Punct(c) == [t |-> c]
NumTok(n) == [t |-> "num", n |-> n]
StrTok(cs) == [t |-> "str", s |-> cs]
KeyTok(k) == [t |-> "key", k |-> k]
Word(w) == [t |-> "word", w |-> w]

Parsed(v, next) == [ok |-> TRUE, v |-> v, next |-> next]
ParseFail == [ok |-> FALSE, v |-> None, next |-> 0]
TokIs(toks, i, c) == i <= Len(toks) /\ toks[i].t = c

RECURSIVE ParseValue(_, _), ParseElems(_, _, _), ParseMembers(_, _, _)
ParseValue(toks, i) ==
    IF i > Len(toks) THEN ParseFail
    ELSE LET t == toks[i] IN
         CASE t.t = "null" -> Parsed(None, i + 1)
           [] t.t = "num" -> Parsed(PyInt(t.n), i + 1)
           [] t.t = "str" -> Parsed(PyStr(t.s), i + 1)
           [] t.t = "[" -> IF TokIs(toks, i + 1, "]")
                           THEN Parsed(PyList(<<>>), i + 2)
                           ELSE ParseElems(toks, i + 1, <<>>)
           [] t.t = "{" -> IF TokIs(toks, i + 1, "}")
                           THEN Parsed(PyDict(<<>>), i + 2)
                           ELSE ParseMembers(toks, i + 1, <<>>)
           [] OTHER -> ParseFail

ParseElems(toks, i, acc) ==
    LET r == ParseValue(toks, i) IN
    IF ~r.ok THEN ParseFail
    ELSE IF TokIs(toks, r.next, ",") THEN ParseElems(toks, r.next + 1, Append(acc, r.v))
    ELSE IF TokIs(toks, r.next, "]") THEN Parsed(PyList(Append(acc, r.v)), r.next + 1)
    ELSE ParseFail

\* A repeated key keeps its last value, as a Python dict does.
ParseMembers(toks, i, acc) ==
    IF ~(TokIs(toks, i, "key") /\ TokIs(toks, i + 1, ":")) THEN ParseFail
    ELSE LET r == ParseValue(toks, i + 2)
             d == (toks[i].k :> r.v) @@ acc
         IN IF ~r.ok THEN ParseFail
            ELSE IF TokIs(toks, r.next, ",") THEN ParseMembers(toks, r.next + 1, d)
            ELSE IF TokIs(toks, r.next, "}") THEN Parsed(PyDict(d), r.next + 1)
            ELSE ParseFail

json_loads(toks) ==
    LET r == ParseValue(toks, 1) IN
    IF r.ok /\ r.next = Len(toks) + 1 THEN Ok(r.v) ELSE Raise("JSONDecodeError")

(***************************************************************************)
(* float(x): an int or a float converts, a str converts when it is a       *)
(* decimal literal and raises ValueError otherwise, any other type raises  *)
(* TypeError.                                                              *)
(***************************************************************************)
Digits == <<"0", "1", "2", "3", "4", "5", "6", "7", "8", "9">>
IsDigit(c) == \E d \in 1..Len(Digits) : Digits[d] = c
DigitVal(c) == (CHOOSE d \in 1..Len(Digits) : Digits[d] = c) - 1

RECURSIVE DecimalVal(_)
DecimalVal(cs) ==
    IF cs = <<>> THEN 0
    ELSE 10 * DecimalVal(SubSeq(cs, 1, Len(cs) - 1)) + DigitVal(cs[Len(cs)])

IsDecimal(cs) == Len(cs) > 0 /\ \A i \in 1..Len(cs) : IsDigit(cs[i])

float(x) ==
    CASE x.ty = "int" -> Ok(PyFloat(x.n))
      [] x.ty = "float" -> Ok(x)
      [] x.ty = "str" -> IF IsDecimal(x.s) THEN Ok(PyFloat(DecimalVal(x.s)))
                         ELSE Raise("ValueError")
      [] OTHER -> Raise("TypeError")

\* f * q for a float f: a number multiplies, any other operand is a TypeError.
Times(f, q) ==
    IF q.ty \in {"int", "float"} THEN Ok(PyFloat(f.n * q.n)) ELSE Raise("TypeError")

\* Mutant: item.get(key), the default left out.
GetOrNone(item, key, default) ==
    IF key \in DOMAIN item.d THEN item.d[key] ELSE None

\* item.get(key, default): only a dict has the method.
Get(item, key, default) ==
    IF key \in DOMAIN item.d THEN item.d[key] ELSE default

\* "for item in items": the elements of a list, the keys of a dict, the
\* characters of a str; a number or None is not iterable.
Iterate(items) ==
    CASE items.ty = "list" -> Ok(items.l)
      [] items.ty = "dict" ->
           LET keys == DOMAIN items.d
               RECURSIVE KeySeq(_)
               KeySeq(ks) == IF ks = {} THEN <<>>
                             ELSE LET k == CHOOSE x \in ks : TRUE
                                  IN <<PyStr(<<k>>)>> \o KeySeq(ks \ {k})
           IN Ok(KeySeq(keys))
      [] items.ty = "str" -> Ok([i \in 1..Len(items.s) |-> PyStr(<<items.s[i]>>)])
      [] OTHER -> Raise("TypeError")

(***************************************************************************)
(* pandas.DataFrame: the column labels in order, and the rows.             *)
(***************************************************************************)
\* A frame built from rows is indexed 0, 1, 2, ...
DataFrame(columns, rows) ==
    [columns |-> columns, rows |-> rows, index |-> [i \in 1..Len(rows) |-> i - 1]]
\* Mutant: a frame of one null row, pd.DataFrame([None]).
FrameOfOneNull == DataFrame(<<"0">>, <<[ty |-> "NoneType"]>>)

EmptyDataFrame == DataFrame(<<>>, <<>>)
\* Mutant: no frame taken for empty.
IsEmptyNever(frame) == FALSE

IsEmpty(frame) == frame.columns = <<>> \/ frame.rows = <<>>
HasColumn(frame, c) == \E i \in 1..Len(frame.columns) : frame.columns[i] = c

(***************************************************************************)
(* extract_line_items_from_orders                                          *)
(***************************************************************************)
SkuDefault == PyStr(<<"N", "/", "A">>)
NameDefault == PyStr(<<"S", "i", "n", " ", "n", "o", "m", "b", "r", "e">>)
\* 'Sin título', its accented letter written plain.
TitleDefault == PyStr(<<"S", "i", "n", " ", "t", "i", "t", "u", "l", "o">>)
LineColumns ==
    <<"order_id", "order_date", "channel", "line_item_id", "product_id", "variant_id",
      "sku", "name", "title", "quantity", "price", "total_discount", "line_total">>

\* Mutant: line_total taken to be the unit price.
LineTotalUnitPrice(item) == float(Get(item, "price", PyInt(0)))

\* Lines 47-50: the numeric entries of the dict built for one item.
Quantity(item) == Get(item, "quantity", PyInt(0))
Price(item) == float(Get(item, "price", PyInt(0)))
TotalDiscount(item) == float(Get(item, "total_discount", PyInt(0)))
LineTotal(item) ==
    IF Price(item).exc # "" THEN Price(item) ELSE Times(Price(item).v, Quantity(item))

\* The dict built for one item; its entries are evaluated in order, and the
\* first exception ends the evaluation.
product_data(row, item) ==
    IF ~({"id", "date", "channel"} \subseteq DOMAIN row) THEN Raise("KeyError")
    ELSE IF item.ty # "dict" THEN Raise("AttributeError")
    ELSE IF Price(item).exc # "" THEN Raise(Price(item).exc)
    ELSE IF TotalDiscount(item).exc # "" THEN Raise(TotalDiscount(item).exc)
    ELSE IF LineTotal(item).exc # "" THEN Raise(LineTotal(item).exc)
    ELSE Ok([order_id |-> row.id,
             order_date |-> row.date,
             channel |-> row.channel,
             line_item_id |-> Get(item, "id", None),
             product_id |-> Get(item, "product_id", None),
             variant_id |-> Get(item, "variant_id", None),
             sku |-> Get(item, "sku", SkuDefault),
             name |-> Get(item, "name", NameDefault),
             title |-> Get(item, "title", Get(item, "name", TitleDefault)),
             quantity |-> Quantity(item),
             price |-> Price(item).v,
             total_discount |-> TotalDiscount(item).v,
             line_total |-> LineTotal(item).v])

\* Mutant: the append placed after the loop, so that only the last line of
\* an order is kept.
RECURSIVE AppendLastItem(_, _, _)
AppendLastItem(row, items, acc) ==
    IF items = <<>> THEN [exc |-> "", all_items |-> acc]
    ELSE LET r == product_data(row, Head(items)) IN
         IF r.exc # "" THEN [exc |-> r.exc, all_items |-> acc]
         ELSE IF Tail(items) = <<>> THEN [exc |-> "", all_items |-> Append(acc, r.v)]
         ELSE AppendLastItem(row, Tail(items), acc)

\* The loop over the items of one order: each line is appended as soon as it
\* is built, so the lines appended before an exception stay in the list.
RECURSIVE AppendItems(_, _, _)
AppendItems(row, items, acc) ==
    IF items = <<>> THEN [exc |-> "", all_items |-> acc]
    ELSE LET r == product_data(row, Head(items)) IN
         IF r.exc # "" THEN [exc |-> r.exc, all_items |-> acc]
         ELSE AppendItems(row, Tail(items), Append(acc, r.v))

\* Mutant: only a null cell is passed over.
PassedOverWhenNull(row) == row.line_items.ty = "NoneType"

\* The cell is neither a str nor a list: the order is passed over.
PassedOver(row) == row.line_items.ty \notin {"str", "list"}

\* The try block for one order: the exception that leaves it (if any) and
\* the list of lines after it.
TryRow(row, acc) ==
    LET cell == row.line_items
        items == IF cell.ty = "str" THEN json_loads(cell.s) ELSE Ok(cell)
        iter == Iterate(items.v)
    IN IF items.exc # "" THEN [exc |-> items.exc, all_items |-> acc]
       ELSE IF iter.exc # "" THEN [exc |-> iter.exc, all_items |-> acc]
       ELSE AppendItems(row, iter.v, acc)

\* Mutant: the except clause without the decoding error.
CaughtWithoutDecodeError == {"KeyError", "TypeError"}

Caught == {"JSONDecodeError", "KeyError", "TypeError"}

\* Mutant: no line still gives a frame with the line columns.
ItemsFrameWithColumns(lines) == DataFrame(LineColumns, lines)

\* Lines 58-62: the frame returned for the lines collected.
ItemsFrame(lines) ==
    IF lines = <<>> THEN EmptyDataFrame ELSE DataFrame(LineColumns, lines)

(***************************************************************************)
(* The orders handed to extract.  Items as the commerce system records     *)
(* them, and the line_items cells built from them: JSON text, native       *)
(* lists, and the other values a cell can hold.                            *)
(***************************************************************************)
MaxOrders == 2

X1 == PyStr(<<"X", "1">>)
X2 == PyStr(<<"X", "2">>)
WidgetName == PyStr(<<"W", "i", "d", "g", "e", "t">>)
GadgetName == PyStr(<<"G", "a", "d", "g", "e", "t">>)
Abc == PyStr(<<"a", "b", "c">>)

Widget == PyDict([sku |-> X1, name |-> WidgetName, price |-> PyInt(10), quantity |-> PyInt(2)])
Gadget == PyDict([id |-> PyInt(501), product_id |-> PyInt(9), variant_id |-> PyInt(90),
                  sku |-> X2, name |-> GadgetName, title |-> PyStr(<<"P", "r", "o">>),
                  quantity |-> PyInt(3), price |-> PyStr(<<"1", "5">>),
                  total_discount |-> PyStr(<<"4">>)])
Bare == PyDict(<<>>)
OnlyName == PyDict([name |-> WidgetName, quantity |-> PyInt(2)])
NoQuantity == PyDict([sku |-> X1, price |-> PyInt(10)])
NullSku == PyDict([sku |-> None, name |-> WidgetName, price |-> PyInt(10), quantity |-> PyInt(1)])
NullPrice == PyDict([sku |-> X2, name |-> GadgetName, price |-> None, quantity |-> PyInt(1)])
StrQuantity == PyDict([sku |-> X2, name |-> GadgetName, price |-> PyInt(10),
                       quantity |-> PyStr(<<"2">>)])
BadPrice == PyDict([sku |-> X1, name |-> WidgetName, price |-> Abc, quantity |-> PyInt(1)])
BadDiscount == PyDict([sku |-> X1, name |-> WidgetName, price |-> PyInt(10),
                       quantity |-> PyInt(1), total_discount |-> Abc])
NotAMap == PyInt(7)

\* The JSON text of a value (as json.dumps writes it), lexeme by lexeme.
KeyOrder == <<"id", "product_id", "variant_id", "sku", "name", "title", "quantity",
              "price", "total_discount">>
RECURSIVE Dumps(_), DumpsElems(_), DumpsMembers(_, _)
Dumps(v) ==
    CASE v.ty = "NoneType" -> <<Punct("null")>>
      [] v.ty = "int" -> <<NumTok(v.n)>>
      [] v.ty = "str" -> <<StrTok(v.s)>>
      [] v.ty = "list" -> <<Punct("[")>> \o DumpsElems(v.l) \o <<Punct("]")>>
      [] v.ty = "dict" -> <<Punct("{")>> \o DumpsMembers(v.d, KeyOrder) \o <<Punct("}")>>
DumpsElems(l) ==
    IF l = <<>> THEN <<>>
    ELSE IF Len(l) = 1 THEN Dumps(l[1])
    ELSE Dumps(l[1]) \o <<Punct(",")>> \o DumpsElems(Tail(l))
DumpsMembers(d, keys) ==
    IF keys = <<>> THEN <<>>
    ELSE LET k == Head(keys)
             rest == DumpsMembers(d, Tail(keys))
         IN IF k \notin DOMAIN d THEN rest
            ELSE <<KeyTok(k), Punct(":")>> \o Dumps(d[k])
                 \o (IF rest = <<>> THEN <<>> ELSE <<Punct(",")>> \o rest)
Text(v) == PyStr(Dumps(v))

\* "{not valid", and a text cut before its closing bracket.
NotValid == PyStr(<<Punct("{"), Word("not"), Word("valid")>>)
CutText(v) == PyStr(SubSeq(Dumps(v), 1, Len(Dumps(v)) - 1))

ItemLists ==
    { <<>>, <<Widget>>, <<Widget, Gadget>>, <<Bare, OnlyName>>, <<NoQuantity>>,
      <<Gadget, NullSku>>,
      <<Widget, NullPrice>>, <<NullPrice, Gadget>>, <<Gadget, StrQuantity>>,
      <<Widget, BadPrice>>, <<BadDiscount>>, <<Widget, NotAMap>> }

Cells ==
    { Text(PyList(l)) : l \in ItemLists }
    \cup { PyList(<<Widget>>), PyList(<<Gadget, Bare>>), PyList(<<Widget, StrQuantity>>),
           PyList(<<NotAMap>>) }
    \cup { Text(Widget), Text(PyInt(5)), Text(None), Text(Abc), Text(PyStr(<<>>)),
           NotValid, CutText(PyList(<<Widget>>)) }
    \cup { None, PyInt(5), PyFloat(0), Widget }

Channels == <<PyStr(<<"W", "e", "b">>), PyStr(<<"P", "O", "S">>)>>
\* Row i of the frame: its id, date and channel, and its line_items cell.
OrderRow(i, cell) ==
    [id |-> PyInt(1000 + i), date |-> PyInt(i), channel |-> Channels[1 + (i % 2)],
     line_items |-> cell]
OrderColumns == <<"id", "date", "channel", "line_items">>

\* The frames: every row has a line_items cell, or the column is missing.
OrdersFrame(n, cells) ==
    DataFrame(OrderColumns, [i \in 1..n |-> OrderRow(i, cells[i])])
NoColumnFrame(n) ==
    DataFrame(SubSeq(OrderColumns, 1, 3),
              [i \in 1..n |-> [id |-> PyInt(1000 + i), date |-> PyInt(i),
                               channel |-> Channels[1 + (i % 2)]]])

(***************************************************************************)
(* State: the frame handed to extract, the position in the function, the   *)
(* row the loop is at, the lines collected, the exception that left the    *)
(* call, and the frame returned; then the same for get_top_products.       *)
(***************************************************************************)
VARIABLES df, pc, idx, all_items, raised, items_df, top_n, top_products, tie_order, sessions
vars == <<df, pc, idx, all_items, raised, items_df, top_n, top_products, tie_order, sessions>>

Init ==
    /\ \E n \in 0..MaxOrders :
         \/ \E cells \in [1..n -> Cells] : df = OrdersFrame(n, cells)
         \/ n > 0 /\ df = NoColumnFrame(n)
    /\ pc = "extract"
    /\ idx = 0
    /\ all_items = <<>>
    /\ raised = ""
    /\ items_df = EmptyDataFrame
    /\ top_n = 0
    /\ top_products = EmptyDataFrame
    /\ tie_order = <<>>
    /\ sessions = <<>>

\* Lines 20-21: an empty frame, or one without the column, gives an empty frame.
ReturnNoInput ==
    /\ pc = "extract"
    /\ (IsEmpty(df) \/ ~HasColumn(df, "line_items"))
    /\ items_df' = EmptyDataFrame
    /\ pc' = "extracted"
    /\ UNCHANGED <<df, idx, all_items, raised, top_n, top_products, tie_order, sessions>>

\* Lines 23-25: the loop starts at the first row.
EnterLoop ==
    /\ pc = "extract"
    /\ ~(IsEmpty(df) \/ ~HasColumn(df, "line_items"))
    /\ all_items' = <<>>
    /\ idx' = 1
    /\ pc' = "rows"
    /\ UNCHANGED <<df, raised, items_df, top_n, top_products, tie_order, sessions>>

AtRow == pc = "rows" /\ idx <= Len(df.rows)

\* Lines 32-33: a cell of another type, the loop continues.
RowPassedOver ==
    /\ AtRow
    /\ PassedOver(df.rows[idx])
    /\ idx' = idx + 1
    /\ UNCHANGED <<df, pc, all_items, raised, items_df, top_n, top_products, tie_order, sessions>>

\* Lines 26-52: the try block ends without an exception.
RowExtracted ==
    /\ AtRow
    /\ ~PassedOver(df.rows[idx])
    /\ LET r == TryRow(df.rows[idx], all_items) IN
        /\ r.exc = ""
        /\ all_items' = r.all_items
    /\ idx' = idx + 1
    /\ UNCHANGED <<df, pc, raised, items_df, top_n, top_products, tie_order, sessions>>

\* Lines 54-56: an exception the except clause names, the loop continues.
RowSkipped ==
    /\ AtRow
    /\ ~PassedOver(df.rows[idx])
    /\ LET r == TryRow(df.rows[idx], all_items) IN
        /\ r.exc \in Caught
        /\ all_items' = r.all_items
    /\ idx' = idx + 1
    /\ UNCHANGED <<df, pc, raised, items_df, top_n, top_products, tie_order, sessions>>

\* Any other exception leaves the function.
RowRaises ==
    /\ AtRow
    /\ ~PassedOver(df.rows[idx])
    /\ LET r == TryRow(df.rows[idx], all_items) IN
        /\ r.exc \notin Caught \cup {""}
        /\ all_items' = r.all_items
        /\ raised' = r.exc
    /\ pc' = "raised"
    /\ UNCHANGED <<df, idx, items_df, top_n, top_products, tie_order, sessions>>

\* Lines 58-62: after the last row.
ReturnItems ==
    /\ pc = "rows"
    /\ idx > Len(df.rows)
    /\ items_df' = ItemsFrame(all_items)
    /\ pc' = "extracted"
    /\ UNCHANGED <<df, idx, all_items, raised, top_n, top_products, tie_order, sessions>>

Next ==
    \/ ReturnNoInput
    \/ EnterLoop
    \/ RowPassedOver
    \/ RowExtracted
    \/ RowSkipped
    \/ RowRaises
    \/ ReturnItems

Spec == Init /\ [][Next]_vars

(***************************************************************************)
(* Longer batches over fewer kinds of cell: well-formed orders, orders     *)
(* with malformed text, orders that are passed over or fail.               *)
(***************************************************************************)
MaxBatch == 3
BatchCells ==
    { Text(PyList(<<Widget>>)), Text(PyList(<<Gadget, Bare>>)), PyList(<<Widget>>),
      NotValid, CutText(PyList(<<Widget>>)), None,
      Text(PyList(<<Widget, NullPrice>>)), Text(PyList(<<BadPrice>>)) }

InitBatch ==
    /\ \E n \in 0..MaxBatch :
         \/ \E cells \in [1..n -> BatchCells] : df = OrdersFrame(n, cells)
         \/ n > 0 /\ df = NoColumnFrame(n)
    /\ pc = "extract"
    /\ idx = 0
    /\ all_items = <<>>
    /\ raised = ""
    /\ items_df = EmptyDataFrame
    /\ top_n = 0
    /\ top_products = EmptyDataFrame
    /\ tie_order = <<>>
    /\ sessions = <<>>

SpecBatch == InitBatch /\ [][Next]_vars


(***************************************************************************)
(* Properties of extract.  An order is told apart by its id, which is the  *)
(* key of the orders table; the lines of an order are read off the list    *)
(* in the order they were appended.                                        *)
(***************************************************************************)
TypeOK ==
    /\ pc \in {"extract", "rows", "extracted", "raised"}
    /\ idx \in 0..(Len(df.rows) + 1)
    /\ raised \in {"", "AttributeError", "ValueError"}

HasCell(row) == "line_items" \in DOMAIN row
Rows == {k \in 1..Len(df.rows) : HasCell(df.rows[k])}
Processed == {k \in Rows : k < idx}
LinesOf(k) == SelectSeq(all_items, LAMBDA l : l.order_id = df.rows[k].id)

Decoded(row) ==
    IF row.line_items.ty = "str" THEN json_loads(row.line_items.s) ELSE Ok(row.line_items)
MalformedJson(row) ==
    row.line_items.ty = "str" /\ Decoded(row).exc = "JSONDecodeError"
OtherType(row) == row.line_items.ty \notin {"str", "list"}
DecodesToList(row) ==
    row.line_items.ty \in {"str", "list"} /\ Decoded(row).exc = "" /\ Decoded(row).v.ty = "list"
ItemsOf(row) == Decoded(row).v.l

Absent(item, key) == key \notin DOMAIN item.d
Numeric(v) == v.ty \in {"int", "float"} \/ (v.ty = "str" /\ IsDecimal(v.s))
\* An item map whose numeric fields, where present, are numbers.
SoundItem(item) ==
    /\ item.ty = "dict"
    /\ Absent(item, "price") \/ Numeric(item.d["price"])
    /\ Absent(item, "total_discount") \/ Numeric(item.d["total_discount"])
    /\ Absent(item, "quantity") \/ item.d["quantity"].ty \in {"int", "float"}
WellFormed(row) ==
    DecodesToList(row) /\ \A p \in 1..Len(ItemsOf(row)) : SoundItem(ItemsOf(row)[p])
ExpectedLines(row) ==
    [p \in 1..Len(ItemsOf(row)) |-> product_data(row, ItemsOf(row)[p]).v]

\* C1: extract never raises, whatever the orders and their line_items hold.
ExtractNeverRaises == pc # "raised"

\* C2: an order with malformed JSON text gives no line and raises nothing, and
\* the lines of every well-formed order before and after it are all there,
\* unchanged.
MalformedOrderOnlySkipped ==
    (\E k \in Rows : MalformedJson(df.rows[k])) =>
        /\ pc = "raised" => ~MalformedJson(df.rows[idx])
        /\ \A k \in Processed :
            /\ MalformedJson(df.rows[k]) => LinesOf(k) = <<>>
            /\ WellFormed(df.rows[k]) => LinesOf(k) = ExpectedLines(df.rows[k])
        /\ pc = "extracted" => items_df.rows = all_items /\ Processed = Rows

MalformedBetweenWellFormed ==
    /\ pc = "extracted"
    /\ {1, 2, 3} \subseteq Rows
    /\ WellFormed(df.rows[1]) /\ MalformedJson(df.rows[2]) /\ WellFormed(df.rows[3])
    /\ LinesOf(1) # <<>> /\ LinesOf(3) # <<>>
    /\ Len(items_df.rows) = Len(LinesOf(1)) + Len(LinesOf(3))

Unconvertible(item, key) == ~Absent(item, key) /\ ~Numeric(item.d[key])
\* C4: an item whose price or total discount is there but is no number still
\* gives its line, with 0.0 in that field, and raises nothing.
LenientCoercion ==
    \A k \in Rows :
        (/\ DecodesToList(df.rows[k])
         /\ \A p \in 1..Len(ItemsOf(df.rows[k])) :
              LET item == ItemsOf(df.rows[k])[p] IN
              /\ item.ty = "dict"
              /\ Absent(item, "quantity") \/ item.d["quantity"].ty = "int")
        => /\ ~(pc = "raised" /\ idx = k)
           /\ k \in Processed =>
                /\ Len(LinesOf(k)) = Len(ItemsOf(df.rows[k]))
                /\ \A p \in 1..Len(LinesOf(k)) :
                     LET item == ItemsOf(df.rows[k])[p] IN
                     /\ Unconvertible(item, "price") => LinesOf(k)[p].price = PyFloat(0)
                     /\ Unconvertible(item, "total_discount") =>
                            LinesOf(k)[p].total_discount = PyFloat(0)

\* C5: an order is extracted whole or not at all: one line for each of its
\* items, or no line.
WholeOrderOrNothing ==
    \A k \in Processed :
        \/ LinesOf(k) = <<>>
        \/ DecodesToList(df.rows[k]) /\ Len(LinesOf(k)) = Len(ItemsOf(df.rows[k]))

\* The item a line of order k came from: the p-th line of the order is built
\* from its p-th item.
ItemAt(k, p) == ItemsOf(df.rows[k])[p]

\* C6: every line comes from one item of one order: it carries the id, date
\* and channel of that order, an order that parses without failure has one
\* line for each of its items (none when it has no item), in the order of the
\* items, and the frame returned holds those lines.
LinesTraceToItems ==
    /\ \A i \in 1..Len(all_items) :
         \E k \in Rows :
            /\ k <= idx
            /\ all_items[i].order_id = df.rows[k].id
            /\ all_items[i].order_date = df.rows[k].date
            /\ all_items[i].channel = df.rows[k].channel
            /\ DecodesToList(df.rows[k])
            /\ Len(LinesOf(k)) <= Len(ItemsOf(df.rows[k]))
    /\ \A k \in Processed :
         WellFormed(df.rows[k]) =>
            /\ Len(LinesOf(k)) = Len(ItemsOf(df.rows[k]))
            /\ \A p \in 1..Len(LinesOf(k)) :
                 /\ LinesOf(k)[p].line_item_id = Get(ItemAt(k, p), "id", None)
                 /\ LinesOf(k)[p].product_id = Get(ItemAt(k, p), "product_id", None)
                 /\ LinesOf(k)[p].variant_id = Get(ItemAt(k, p), "variant_id", None)
                 /\ LinesOf(k)[p].sku = Get(ItemAt(k, p), "sku", LinesOf(k)[p].sku)
    /\ pc = "extracted" => items_df.rows = all_items

TwoOrdersTraced ==
    /\ pc = "extracted"
    /\ Rows = {1, 2}
    /\ WellFormed(df.rows[1]) /\ WellFormed(df.rows[2])
    /\ Len(ItemsOf(df.rows[1])) = 2 /\ Len(ItemsOf(df.rows[2])) = 0
    /\ Len(items_df.rows) = 2
    /\ items_df.rows[1].sku # items_df.rows[2].sku

NumberOf(v) == IF v.ty = "str" THEN DecimalVal(v.s) ELSE v.n
\* C7: in every line, line_total is the line's price times the line's
\* quantity; the price is the number the item's price stands for and the
\* quantity is the item's quantity, or 0.0 and 0 when the item has none.
LineTotalIsPriceTimesQuantity ==
    /\ \A i \in 1..Len(all_items) :
         /\ all_items[i].line_total.ty = "float"
         /\ all_items[i].line_total.n = all_items[i].price.n * all_items[i].quantity.n
    /\ \A k \in Processed :
         \A p \in 1..Len(LinesOf(k)) :
            /\ LinesOf(k)[p].price.n =
                 (IF Absent(ItemAt(k, p), "price") THEN 0
                  ELSE NumberOf(ItemAt(k, p).d["price"]))
            /\ LinesOf(k)[p].quantity =
                 (IF Absent(ItemAt(k, p), "quantity") THEN PyInt(0)
                  ELSE ItemAt(k, p).d["quantity"])

TextPriceMultiplied ==
    /\ pc = "extracted"
    /\ \E i \in 1..Len(items_df.rows) :
         /\ items_df.rows[i].price = PyFloat(15)
         /\ items_df.rows[i].quantity = PyInt(3)
         /\ items_df.rows[i].line_total = PyFloat(45)

DefaultsFilled(item, line) ==
    /\ Absent(item, "sku") => line.sku = PyStr(<<"N", "/", "A">>)
    /\ Absent(item, "name") =>
         line.name = PyStr(<<"S", "i", "n", " ", "n", "o", "m", "b", "r", "e">>)
    /\ (Absent(item, "title") /\ ~Absent(item, "name")) => line.title = item.d["name"]
    /\ (Absent(item, "title") /\ Absent(item, "name")) =>
         line.title = PyStr(<<"S", "i", "n", " ", "t", "i", "t", "u", "l", "o">>)
    /\ Absent(item, "quantity") => line.quantity = PyInt(0)
    /\ Absent(item, "price") => line.price = PyFloat(0)
    /\ Absent(item, "total_discount") => line.total_discount = PyFloat(0)
    /\ (Absent(item, "price") \/ Absent(item, "quantity")) => line.line_total = PyFloat(0)
\* C8: an item map that lacks a field is emitted with the default in its
\* line: sku "N/A", name "Sin nombre", title the item's name or else the
\* second sentinel, quantity 0, price 0.0, total discount 0.0, and line_total
\* 0 when the price or the quantity is missing.
MissingFieldsDefaulted ==
    \A k \in Processed :
        /\ WellFormed(df.rows[k]) => Len(LinesOf(k)) = Len(ItemsOf(df.rows[k]))
        /\ \A p \in 1..Len(LinesOf(k)) : DefaultsFilled(ItemAt(k, p), LinesOf(k)[p])

BareItemEmitted ==
    /\ pc = "extracted"
    /\ \E k \in Rows :
         /\ DecodesToList(df.rows[k])
         /\ Len(ItemsOf(df.rows[k])) = 2
         /\ ItemAt(k, 1) = PyDict(<<>>)
         /\ Absent(ItemAt(k, 2), "title") /\ ~Absent(ItemAt(k, 2), "name")
         /\ Len(LinesOf(k)) = 2
         /\ LinesOf(k)[1].sku = PyStr(<<"N", "/", "A">>)
         /\ LinesOf(k)[2].title = ItemAt(k, 2).d["name"]

\* C9 as stated: when there are orders and none of them gives a line, the
\* result differs from the result for no orders at all (an empty frame).
NoLinesDistinguishable ==
    (pc = "extracted" /\ Rows # {} /\ all_items = <<>>) => items_df # EmptyDataFrame

\* C9 as amended: orders that give no line yield the same result as no
\* orders: a frame with no column and no row.
NoLinesSameAsNoOrders ==
    (pc = "extracted" /\ all_items = <<>>) =>
        items_df = [columns |-> <<>>, rows |-> <<>>, index |-> <<>>]

OrdersButNoLines ==
    /\ pc = "extracted"
    /\ Rows = {1, 2}
    /\ all_items = <<>>
    /\ IsEmpty(items_df)

(***************************************************************************)
(* get_top_products                                                        *)
(***************************************************************************)
DefaultTopN == 20

\* Code-point order of the characters that occur, and of strings.
Alphabet ==
    <<" ", "/", "0", "1", "2", "3", "4", "5", "6", "7", "8", "9",
      "A", "B", "C", "D", "E", "F", "G", "H", "I", "J", "K", "L", "M", "N", "O", "P", "Q",
      "R", "S", "T", "U", "V", "W", "X", "Y", "Z",
      "a", "b", "c", "d", "e", "f", "g", "h", "i", "j", "k", "l", "m", "n", "o", "p", "q",
      "r", "s", "t", "u", "v", "w", "x", "y", "z">>
CodePoint(c) == CHOOSE i \in 1..Len(Alphabet) : Alphabet[i] = c
RECURSIVE StrLess(_, _)
StrLess(a, b) ==
    IF b = <<>> THEN FALSE
    ELSE IF a = <<>> THEN TRUE
    ELSE IF a[1] = b[1] THEN StrLess(Tail(a), Tail(b))
    ELSE CodePoint(a[1]) < CodePoint(b[1])
KeyLess(k1, k2) ==
    \/ StrLess(k1[1].s, k2[1].s)
    \/ k1[1] = k2[1] /\ StrLess(k1[2].s, k2[2].s)

\* groupby(['sku', 'name']): one group for each pair of keys, the groups in
\* ascending key order; a line with a null key is in no group.
IsNull(v) == v.ty = "NoneType"
GroupKeys(lines) ==
    { <<lines[i].sku, lines[i].name>> :
        i \in { j \in 1..Len(lines) : ~IsNull(lines[j].sku) /\ ~IsNull(lines[j].name) } }
RECURSIVE SortedKeys(_)
SortedKeys(keys) ==
    IF keys = {} THEN <<>>
    ELSE LET least == CHOOSE k \in keys : \A o \in keys \ {k} : KeyLess(k, o)
         IN <<least>> \o SortedKeys(keys \ {least})

\* agg 'sum' of one column over the lines of a group.
RECURSIVE SumColumn(_, _, _)
SumColumn(lines, key, col) ==
    IF lines = <<>> THEN 0
    ELSE (IF <<Head(lines).sku, Head(lines).name>> = key THEN Head(lines)[col].n ELSE 0)
         + SumColumn(Tail(lines), key, col)

\* Lines 80-83: the summary, one row for each group.
GroupBySum(lines) ==
    LET keys == SortedKeys(GroupKeys(lines)) IN
    [g \in 1..Len(keys) |->
        [sku |-> keys[g][1],
         name |-> keys[g][2],
         quantity |-> PyInt(SumColumn(lines, keys[g], "quantity")),
         line_total |-> PyFloat(SumColumn(lines, keys[g], "line_total"))]]

\* Line 86: sort_values('line_total', ascending=False) with the default
\* sorting kind, which is not stable: line_total never increases, and the
\* order of the rows that tie is the build's, one and the same in every call
\* (the sort has no random or stored input).  prio ranks the positions of
\* the rows: among the rows that tie, the lower prio comes first.
Orderings(n) ==
    { f \in [1..n -> 1..n] : \A i, j \in 1..n : i # j => f[i] # f[j] }
Before(rows, prio, i, j) ==
    \/ rows[i].line_total.n > rows[j].line_total.n
    \/ rows[i].line_total.n = rows[j].line_total.n /\ prio[i] < prio[j]

\* Mutant: ascending.
RECURSIVE SortRowsAscending(_, _, _)
SortRowsAscending(rows, rest, prio) ==
    IF rest = {} THEN <<>>
    ELSE LET last == CHOOSE i \in rest : \A j \in rest \ {i} : Before(rows, prio, i, j)
         IN SortRowsAscending(rows, rest \ {last}, prio) \o <<rows[last]>>

RECURSIVE SortRows(_, _, _)
SortRows(rows, rest, prio) ==
    IF rest = {} THEN <<>>
    ELSE LET first == CHOOSE i \in rest : \A j \in rest \ {i} : Before(rows, prio, i, j)
         IN <<rows[first]>> \o SortRows(rows, rest \ {first}, prio)
SortValuesDescending(rows, prio) == SortRows(rows, 1..Len(rows), prio)

\* The orders a build can give the rows, each written as the place every row
\* takes in the sorted summary.
SortPositions(rows, prio) ==
    [i \in 1..Len(rows) |->
        Cardinality({ j \in 1..Len(rows) : Before(rows, prio, j, i) }) + 1]
TieOrders(rows) == { SortPositions(rows, prio) : prio \in Orderings(Len(rows)) }

\* Lines 89-90: the share of the total, rounded to two decimals (half to
\* even), in hundredths of a percent; 0 / 0 is NaN.
RECURSIVE TotalSales(_)
TotalSales(rows) ==
    IF rows = <<>> THEN 0 ELSE Head(rows).line_total.n + TotalSales(Tail(rows))
NaN == [ty |-> "float", nan |-> TRUE]
Hundredths(h) == [ty |-> "float", hundredths |-> h]
RoundHalfEven(num, den) ==
    LET q == num \div den
        r == num % den
    IN IF 2 * r < den THEN q
       ELSE IF 2 * r > den THEN q + 1
       ELSE IF q % 2 = 0 THEN q ELSE q + 1
\* Mutant: the share cut to two decimals, not rounded.
PctTotalTruncated(line_total, total_sales) ==
    IF total_sales = 0 THEN [ty |-> "float", nan |-> TRUE]
    ELSE [ty |-> "float", hundredths |-> (line_total * 10000) \div total_sales]

PctTotal(line_total, total_sales) ==
    IF total_sales = 0 THEN NaN
    ELSE Hundredths(RoundHalfEven(line_total * 10000, total_sales))
WithPctTotal(rows) ==
    [i \in 1..Len(rows) |->
        [sku |-> rows[i].sku, name |-> rows[i].name, quantity |-> rows[i].quantity,
         line_total |-> rows[i].line_total,
         pct_total |-> PctTotal(rows[i].line_total.n, TotalSales(rows))]]

\* Mutant: the cut one row too late.
HeadRowsOneMore(rows, n) ==
    SubSeq(rows, 1, IF n + 1 < Len(rows) THEN n + 1 ELSE Len(rows))

\* head(n): the first n rows, or all but the last -n rows when n is negative.
HeadRows(rows, n) ==
    IF n >= 0 THEN SubSeq(rows, 1, IF n < Len(rows) THEN n ELSE Len(rows))
    ELSE SubSeq(rows, 1, Len(rows) + n)

\* Mutant: the shares taken of the total of the rows that are kept.
TopFrameShareOfTop(rows, n) ==
    LET top == WithPctTotal(HeadRows(rows, n)) IN
    [columns |-> <<"SKU", "Producto", "Unidades", "Ventas (MXN)", "% del Total">>,
     rows |-> top, index |-> [i \in 1..Len(top) |-> i]]

\* Mutant: the index left as reset_index gives it, from 0.
TopFrameIndexFromZero(rows, n) ==
    LET top == HeadRows(rows, n) IN
    [columns |-> <<"SKU", "Producto", "Unidades", "Ventas (MXN)", "% del Total">>,
     rows |-> top, index |-> [i \in 1..Len(top) |-> i - 1]]

\* Lines 93-97: the first top_n rows, indexed from 1, under the display names
\* (the columns are renamed by position).
TopColumns == <<"SKU", "Producto", "Unidades", "Ventas (MXN)", "% del Total">>
TopFrame(rows, n) ==
    LET top == HeadRows(rows, n) IN
    [columns |-> TopColumns, rows |-> top, index |-> [i \in 1..Len(top) |-> i]]

\* The lines handed to get_top_products: as extract builds them from items.
MaxLines == 3
MaxTopN == 3
MaxNegTopN == 2
WidgetRenamed == PyDict([sku |-> X1, name |-> PyStr(<<"W", "i", "d", "g", "e", "t", " ", "2">>),
                         price |-> PyInt(20), quantity |-> PyInt(1)])
Thirty == PyDict([sku |-> PyStr(<<"A", "3">>), name |-> PyStr(<<"B", "o", "l", "t">>),
                  price |-> PyInt(15), quantity |-> PyInt(2)])
Fifty == PyDict([sku |-> PyStr(<<"X", "1", "0">>), name |-> PyStr(<<"N", "u", "t">>),
                 price |-> PyStr(<<"5", "0">>), quantity |-> PyInt(1)])
RankItems == {Widget, WidgetRenamed, Gadget, Thirty, Fifty, Bare, NullSku}
RankLines == { product_data(OrderRow(1, None), item).v : item \in RankItems }
TopNs == ((0 - MaxNegTopN)..MaxTopN) \cup {DefaultTopN}

InitRank ==
    /\ \E n \in 0..MaxLines : \E lines \in [1..n -> RankLines] :
         /\ items_df = ItemsFrame(lines)
         /\ tie_order \in TieOrders(GroupBySum(lines))
    /\ pc = "rank"
    /\ top_n = DefaultTopN
    /\ top_products = EmptyDataFrame
    /\ df = EmptyDataFrame
    /\ idx = 0
    /\ all_items = <<>>
    /\ raised = ""
    /\ sessions = <<>>

\* The caller calls get_top_products, and calls it once more with the same
\* frame and the same top_n.
Calls == {"rank", "ranked"}
AfterCall(at) == IF at = "rank" THEN "ranked" ELSE "ranked_again"
Arguments(at) == IF at = "rank" THEN TopNs ELSE {top_n}

\* Mutant: the last line dropped from the caller's frame in place.
InputAfterCallCut(frame) ==
    [columns |-> frame.columns,
     rows |-> SubSeq(frame.rows, 1, Len(frame.rows) - 1),
     index |-> SubSeq(frame.index, 1, Len(frame.index) - 1)]

\* Lines 80-97 build new frames (groupby, agg, reset_index, sort_values and
\* head return copies): the caller's frame is as it was.
InputAfterCall(frame) == frame

\* Lines 76-77: no line, an empty frame.
RankNothing ==
    /\ pc \in Calls
    /\ IsEmpty(items_df)
    /\ \E n \in Arguments(pc) : top_n' = n
    /\ top_products' = EmptyDataFrame
    /\ pc' = AfterCall(pc)
    /\ UNCHANGED <<df, idx, all_items, raised, items_df, tie_order, sessions>>

\* Lines 79-99.  groupby and agg raise KeyError for a column the frame does
\* not have.
SummaryColumns == {"sku", "name", "quantity", "line_total"}
RankTop ==
    /\ pc \in Calls
    /\ ~IsEmpty(items_df)
    /\ \E n \in Arguments(pc) :
         /\ top_n' = n
         /\ IF \A c \in SummaryColumns : HasColumn(items_df, c)
            THEN /\ top_products' =
                      TopFrame(WithPctTotal(
                          SortValuesDescending(GroupBySum(items_df.rows), tie_order)), n)
                 /\ items_df' = InputAfterCall(items_df)
                 /\ pc' = AfterCall(pc)
                 /\ raised' = raised
            ELSE /\ top_products' = top_products
                 /\ items_df' = items_df
                 /\ pc' = "raised"
                 /\ raised' = "KeyError"
    /\ UNCHANGED <<df, idx, all_items, tie_order, sessions>>

NextRank == RankNothing \/ RankTop

SpecRank == InitRank /\ [][NextRank]_vars

(***************************************************************************)
(* Many groups: one line for each of n products, all at one price but the  *)
(* first, which has a price of its own.  The rows tie, and the tie order   *)
(* is the order of the groups or its reverse.                              *)
(***************************************************************************)
MaxGroups == 18
MaxPrice == 2
ShareItem(i, price) ==
    PyDict([sku |-> PyStr(<<"S", Digits[(i \div 10) + 1], Digits[(i % 10) + 1]>>),
            name |-> PyStr(<<"N", "u", "t">>),
            price |-> PyInt(price), quantity |-> PyInt(1)])
ShareLines(n, first, price) ==
    [i \in 1..n |->
        product_data(OrderRow(1, None), ShareItem(i, IF i = 1 THEN first ELSE price)).v]

InitShares ==
    /\ \E n \in 0..MaxGroups : \E first, price \in 1..MaxPrice :
         /\ items_df = ItemsFrame(ShareLines(n, first, price))
         /\ tie_order \in {[i \in 1..n |-> i], [i \in 1..n |-> n + 1 - i]}
    /\ pc = "rank"
    /\ top_n = DefaultTopN
    /\ top_products = EmptyDataFrame
    /\ df = EmptyDataFrame
    /\ idx = 0
    /\ all_items = <<>>
    /\ raised = ""
    /\ sessions = <<>>

SpecShares == InitShares /\ [][NextRank]_vars

(***************************************************************************)
(* Two sessions of the dashboard, each calling extract and then rank on    *)
(* its own frame, their steps interleaved.  all_items is the list the call *)
(* made at line 23; every other name of the two functions is a local of    *)
(* the call.                                                               *)
(***************************************************************************)
Sessions == {1, 2}
MaxSessionOrders == 1
SessionCells ==
    { Text(PyList(<<Widget>>)), PyList(<<Widget, WidgetRenamed, Thirty>>), NotValid,
      Text(PyList(<<Widget, BadPrice>>)), None }
SessionTopNs == {1, DefaultTopN}

\* Mutant: one list for all calls (a module-level list, a mutable default).
AccumulatorShared(s) == 1

\* Line 23: all_items = [] makes a list of the call's own.
Accumulator(s) == s

\* The whole of extract_line_items_from_orders on a frame, run alone.
RECURSIVE ExtractRows(_, _, _)
ExtractRows(rows, k, acc) ==
    IF k > Len(rows) THEN [exc |-> "", all_items |-> acc]
    ELSE IF PassedOver(rows[k]) THEN ExtractRows(rows, k + 1, acc)
    ELSE LET r == TryRow(rows[k], acc) IN
         IF r.exc \in Caught \cup {""} THEN ExtractRows(rows, k + 1, r.all_items)
         ELSE r
extract_line_items_from_orders(frame) ==
    IF IsEmpty(frame) \/ ~HasColumn(frame, "line_items") THEN Ok(EmptyDataFrame)
    ELSE LET r == ExtractRows(frame.rows, 1, <<>>) IN
         IF r.exc # "" THEN Raise(r.exc) ELSE Ok(ItemsFrame(r.all_items))

\* The whole of get_top_products on a frame of lines.
get_top_products(frame, n, prio) ==
    IF IsEmpty(frame) THEN EmptyDataFrame
    ELSE TopFrame(WithPctTotal(SortValuesDescending(GroupBySum(frame.rows), prio)), n)

SessionCall(frame) ==
    [pc |-> "extract", given |-> frame, df |-> frame, idx |-> 0, raised |-> "",
     items_df |-> EmptyDataFrame, top_n |-> 0, tie |-> <<>>,
     top_products |-> EmptyDataFrame]

InitSessions ==
    /\ \E frames \in [Sessions ->
            { OrdersFrame(n, cells) :
                n \in 0..MaxSessionOrders, cells \in [1..MaxSessionOrders -> SessionCells] }] :
         sessions = [call |-> [s \in Sessions |-> SessionCall(frames[s])],
                     lists |-> [a \in Sessions |-> <<>>]]
    /\ pc = "sessions"
    /\ df = EmptyDataFrame
    /\ idx = 0
    /\ all_items = <<>>
    /\ raised = ""
    /\ items_df = EmptyDataFrame
    /\ top_n = 0
    /\ top_products = EmptyDataFrame
    /\ tie_order = <<>>

\* A step of session s: its call record and the list it appends to.
SessionStep(s, call, list) ==
    /\ sessions' = [call |-> [sessions.call EXCEPT ![s] = call],
                    lists |-> [sessions.lists EXCEPT ![Accumulator(s)] = list]]
    /\ UNCHANGED <<df, pc, idx, all_items, raised, items_df, top_n, top_products, tie_order>>
ListOf(s) == sessions.lists[Accumulator(s)]
SessionAtRow(s) ==
    /\ pc = "sessions"
    /\ sessions.call[s].pc = "rows"
    /\ sessions.call[s].idx <= Len(sessions.call[s].df.rows)
    /\ ~PassedOver(sessions.call[s].df.rows[sessions.call[s].idx])
SessionTryRow(s) ==
    TryRow(sessions.call[s].df.rows[sessions.call[s].idx], ListOf(s))

\* Lines 20-21.
SessionReturnNoInput(s) ==
    /\ pc = "sessions"
    /\ sessions.call[s].pc = "extract"
    /\ (IsEmpty(sessions.call[s].df) \/ ~HasColumn(sessions.call[s].df, "line_items"))
    /\ SessionStep(s, [sessions.call[s] EXCEPT !.pc = "extracted",
                                               !.items_df = EmptyDataFrame], ListOf(s))

\* Lines 23-25.
SessionEnterLoop(s) ==
    /\ pc = "sessions"
    /\ sessions.call[s].pc = "extract"
    /\ ~(IsEmpty(sessions.call[s].df) \/ ~HasColumn(sessions.call[s].df, "line_items"))
    /\ SessionStep(s, [sessions.call[s] EXCEPT !.pc = "rows", !.idx = 1], <<>>)

\* Lines 32-33.
SessionRowPassedOver(s) ==
    /\ pc = "sessions"
    /\ sessions.call[s].pc = "rows"
    /\ sessions.call[s].idx <= Len(sessions.call[s].df.rows)
    /\ PassedOver(sessions.call[s].df.rows[sessions.call[s].idx])
    /\ SessionStep(s, [sessions.call[s] EXCEPT !.idx = @ + 1], ListOf(s))

\* Lines 26-52.
SessionRowExtracted(s) ==
    /\ SessionAtRow(s)
    /\ SessionTryRow(s).exc = ""
    /\ SessionStep(s, [sessions.call[s] EXCEPT !.idx = @ + 1], SessionTryRow(s).all_items)

\* Lines 54-56.
SessionRowSkipped(s) ==
    /\ SessionAtRow(s)
    /\ SessionTryRow(s).exc \in Caught
    /\ SessionStep(s, [sessions.call[s] EXCEPT !.idx = @ + 1], SessionTryRow(s).all_items)

\* Any other exception leaves the function.
SessionRowRaises(s) ==
    /\ SessionAtRow(s)
    /\ SessionTryRow(s).exc \notin Caught \cup {""}
    /\ SessionStep(s, [sessions.call[s] EXCEPT !.pc = "raised",
                                               !.raised = SessionTryRow(s).exc],
                   SessionTryRow(s).all_items)

\* Lines 58-62.
SessionReturnItems(s) ==
    /\ pc = "sessions"
    /\ sessions.call[s].pc = "rows"
    /\ sessions.call[s].idx > Len(sessions.call[s].df.rows)
    /\ SessionStep(s, [sessions.call[s] EXCEPT !.pc = "extracted",
                                               !.items_df = ItemsFrame(ListOf(s))], ListOf(s))

\* Lines 64-99, on the lines the session extracted.
SessionRank(s) ==
    /\ pc = "sessions"
    /\ sessions.call[s].pc = "extracted"
    /\ \E n \in SessionTopNs :
       \E prio \in TieOrders(GroupBySum(sessions.call[s].items_df.rows)) :
         SessionStep(s, [sessions.call[s] EXCEPT
                            !.pc = "ranked", !.top_n = n, !.tie = prio,
                            !.top_products = get_top_products(sessions.call[s].items_df, n, prio)],
                     ListOf(s))

NextSessions ==
    \E s \in Sessions :
        \/ SessionReturnNoInput(s)
        \/ SessionEnterLoop(s)
        \/ SessionRowPassedOver(s)
        \/ SessionRowExtracted(s)
        \/ SessionRowSkipped(s)
        \/ SessionRowRaises(s)
        \/ SessionReturnItems(s)
        \/ SessionRank(s)

SpecSessions == InitSessions /\ [][NextSessions]_vars

(***************************************************************************)
(* Properties of get_top_products.                                         *)
(***************************************************************************)
\* The distinct (sku, name) pairs of the lines that have both.
Groups ==
    { <<items_df.rows[i].sku, items_df.rows[i].name>> :
        i \in { j \in 1..Len(items_df.rows) :
                  items_df.rows[j].sku.ty = "str" /\ items_df.rows[j].name.ty = "str" } }
Smaller(a, b) == IF a < b THEN a ELSE b

\* C10: with top_n >= 1 the result has exactly min(top_n, G) rows, G the
\* number of groups of the lines, and so never more than top_n.
TopHasMinOfNAndGroups ==
    (pc = "ranked" /\ top_n >= 1) =>
        /\ Len(top_products.rows) = Smaller(top_n, Cardinality(Groups))
        /\ Len(top_products.rows) <= top_n

TopCutsThreeGroupsToTwo ==
    /\ pc = "ranked"
    /\ top_n = 2
    /\ Cardinality(Groups) = 3
    /\ Len(top_products.rows) = 2

\* C11: with top_n zero or negative the result is empty, whatever the number
\* of groups.
NonPositiveTopNGivesNothing ==
    (pc = "ranked" /\ top_n <= 0) => top_products.rows = <<>>

\* The (sku, name) pairs that occur in the lines, a null member included, and
\* the sum of a column over the lines of a pair.
AllPairs ==
    { <<items_df.rows[i].sku, items_df.rows[i].name>> : i \in 1..Len(items_df.rows) }
LinesOfPair(pair) ==
    { i \in 1..Len(items_df.rows) :
        <<items_df.rows[i].sku, items_df.rows[i].name>> = pair }
RECURSIVE SumOver(_, _)
SumOver(S, col) ==
    IF S = {} THEN 0
    ELSE LET i == CHOOSE j \in S : TRUE
         IN items_df.rows[i][col].n + SumOver(S \ {i}, col)
RowOfPair(pair) ==
    [sku |-> pair[1], name |-> pair[2],
     quantity |-> PyInt(SumOver(LinesOfPair(pair), "quantity")),
     line_total |-> PyFloat(SumOver(LinesOfPair(pair), "line_total"))]
HasRowOfPair(pair) ==
    \E i \in 1..Len(top_products.rows) :
        /\ top_products.rows[i].sku = pair[1]
        /\ top_products.rows[i].name = pair[2]
        /\ top_products.rows[i].quantity = RowOfPair(pair).quantity
        /\ top_products.rows[i].line_total = RowOfPair(pair).line_total

\* C12: the untruncated result has exactly one row for each distinct
\* (sku, name) pair that occurs in the lines, the same sku under two names
\* giving two rows, and the row's quantity and revenue are the exact sums over
\* the lines of the pair.
OneRowPerPair ==
    (pc = "ranked" /\ top_n >= 1 /\ top_n >= Cardinality(AllPairs)) =>
        /\ Len(top_products.rows) = Cardinality(AllPairs)
        /\ \A pair \in AllPairs : HasRowOfPair(pair)

\* The same for the pairs that have both members (the lines with a null sku
\* or name set aside).
OneRowPerKeyedPair ==
    (pc = "ranked" /\ top_n >= 1 /\ top_n >= Cardinality(Groups)) =>
        /\ Len(top_products.rows) = Cardinality(Groups)
        /\ \A pair \in Groups : HasRowOfPair(pair)

\* The revenue of all groups together, from the lines, and "h hundredths is
\* num / den rounded to the nearest, a half going to the even side".
TotalOfGroups ==
    SumOver({ i \in 1..Len(items_df.rows) :
                <<items_df.rows[i].sku, items_df.rows[i].name>> \in Groups }, "line_total")
Distance(a, b) == IF a < b THEN b - a ELSE a - b
IsRounded(h, num, den) ==
    /\ 2 * Distance(h * den, num) <= den
    /\ 2 * Distance(h * den, num) = den => h % 2 = 0

\* C13: the percentage of every returned row is its revenue over the total
\* revenue of all groups, times 100 and rounded to two decimals, the total
\* taken before the cut to top_n: it is the same for every top_n, and the
\* percentages of a cut result can add up to less than 100.
PctOfAllGroups ==
    (pc = "ranked" /\ TotalOfGroups # 0) =>
        \A i \in 1..Len(top_products.rows) :
            /\ top_products.rows[i].pct_total # NaN
            /\ IsRounded(top_products.rows[i].pct_total.hundredths,
                         top_products.rows[i].line_total.n * 10000, TotalOfGroups)

CutSharesBelowHundred ==
    /\ pc = "ranked"
    /\ top_n = 2
    /\ TotalOfGroups = 100
    /\ Len(top_products.rows) = 2
    /\ top_products.rows[1].pct_total = Hundredths(5000)
    /\ top_products.rows[2].pct_total = Hundredths(3000)

\* C14: with lines but a total revenue of zero the call does not fault and
\* gives no undefined (NaN) percentage: the percentage of every group is 0.
ZeroTotalGivesZeroPct ==
    (items_df.rows # <<>> /\ TotalOfGroups = 0) =>
        /\ pc # "raised"
        /\ pc = "ranked" =>
              \A i \in 1..Len(top_products.rows) :
                  top_products.rows[i].pct_total = Hundredths(0)

\* The percentages of a result added up, in hundredths of a percent.
RECURSIVE SumPct(_)
SumPct(rows) ==
    IF rows = <<>> THEN 0 ELSE Head(rows).pct_total.hundredths + SumPct(Tail(rows))
AllGroupsReturned ==
    /\ pc = "ranked"
    /\ items_df.rows # <<>>
    /\ TotalOfGroups # 0
    /\ Len(top_products.rows) = Cardinality(Groups)

\* C15: with lines, a total revenue that is not zero and any number of
\* groups, the rounded percentages of all groups add up to 100 within 0.05.
PctSumWithinTolerance ==
    AllGroupsReturned => Distance(SumPct(top_products.rows), 10000) <= 5

\* C15, amended: they add up to 100 within half a hundredth for each group.
PctSumWithinHalfHundredthPerGroup ==
    AllGroupsReturned =>
        2 * Distance(SumPct(top_products.rows), 10000) <= Cardinality(Groups)

EighteenEqualShares ==
    /\ AllGroupsReturned
    /\ Cardinality(Groups) = 18
    /\ \A i \in 1..18 : top_products.rows[i].pct_total = Hundredths(556)
    /\ SumPct(top_products.rows) = 10008

\* C16: the rows of the result are in descending order of revenue (of two
\* consecutive rows the earlier has the greater or an equal revenue), and no
\* group left out by the cut has a revenue strictly greater than a returned
\* row.
DescendingRevenue ==
    pc = "ranked" =>
        /\ \A i \in 1..(Len(top_products.rows) - 1) :
              top_products.rows[i].line_total.n >= top_products.rows[i + 1].line_total.n
        /\ \A pair \in Groups :
              ~HasRowOfPair(pair) =>
                  \A i \in 1..Len(top_products.rows) :
                      RowOfPair(pair).line_total.n <= top_products.rows[i].line_total.n

LeastGroupLeftOut ==
    /\ pc = "ranked"
    /\ Len(top_products.rows) = 2
    /\ top_products.rows[1].line_total.n = 50
    /\ top_products.rows[2].line_total.n = 30
    /\ \E pair \in Groups : ~HasRowOfPair(pair) /\ RowOfPair(pair).line_total.n = 20

\* C17: the rank numbers of a result that is not empty are 1, 2, ..., k in
\* the order of the rows, k the number of rows: from 1, no gap, no duplicate,
\* also when groups tie on revenue.
RanksFromOne ==
    (pc = "ranked" /\ top_products.rows # <<>>) =>
        /\ Len(top_products.index) = Len(top_products.rows)
        /\ \A i \in 1..Len(top_products.rows) : top_products.index[i] = i

TiedGroupsRankedOneTwo ==
    /\ pc = "ranked"
    /\ Len(top_products.rows) = 2
    /\ top_products.rows[1].line_total = top_products.rows[2].line_total
    /\ top_products.rows[1].name # top_products.rows[2].name
    /\ top_products.index = <<1, 2>>

\* C18: for no line at all the call returns an empty result for every top_n,
\* positive, zero or negative, and does not raise.
NoLinesNoRows ==
    (pc \in {"ranked", "raised"} /\ items_df.rows = <<>>) =>
        /\ pc = "ranked"
        /\ top_products.rows = <<>>

NoLinesRankedForNegativeTopN ==
    /\ pc = "ranked"
    /\ items_df.rows = <<>>
    /\ top_n < 0
    /\ top_products.rows = <<>>

\* C19: for no order at all extract returns an empty sequence of lines and
\* does not raise.
NoOrdersNoLines ==
    (pc \in {"extracted", "raised"} /\ df.rows = <<>>) =>
        /\ pc = "extracted"
        /\ items_df.rows = <<>>

NoOrdersExtracted ==
    /\ pc = "extracted"
    /\ df.rows = <<>>
    /\ idx = 0
    /\ items_df.rows = <<>>

RECURSIVE SumRows(_, _)
SumRows(rows, col) ==
    IF rows = <<>> THEN 0 ELSE Head(rows)[col].n + SumRows(Tail(rows), col)

\* C21: every line is counted in exactly one group, a line with a null sku or
\* name too: over all groups the quantities add up to the quantity of all
\* lines and the revenues to the line_total of all lines, so the shares are
\* shares of the revenue of all the lines.
EveryLineCounted ==
    (pc = "ranked" /\ top_n >= 1 /\ top_n >= Cardinality(AllPairs)) =>
        /\ SumRows(top_products.rows, "quantity")
              = SumOver(1..Len(items_df.rows), "quantity")
        /\ SumRows(top_products.rows, "line_total")
              = SumOver(1..Len(items_df.rows), "line_total")

\* The place of a row of the result among the groups as the grouping step
\* gives them.
GroupPosition(row) ==
    CHOOSE g \in 1..Len(GroupBySum(items_df.rows)) :
        /\ GroupBySum(items_df.rows)[g].sku = row.sku
        /\ GroupBySum(items_df.rows)[g].name = row.name

\* C22: the sort by revenue is stable: two groups of exactly equal revenue
\* are in the result in the order in which the grouping step produced them,
\* for any number of groups and wherever the tie is.
TiesKeepGroupingOrder ==
    pc = "ranked" =>
        \A i, j \in 1..Len(top_products.rows) :
            (i < j /\ top_products.rows[i].line_total = top_products.rows[j].line_total) =>
                GroupPosition(top_products.rows[i]) < GroupPosition(top_products.rows[j])

\* What a session has got is what its calls return when run alone on its
\* frame, and its frame is the one it was given.
ReturnsAsAlone(call) ==
    /\ call.df = call.given
    /\ call.pc = "raised" => extract_line_items_from_orders(call.given) = Raise(call.raised)
    /\ call.pc \in {"extracted", "ranked"} =>
          extract_line_items_from_orders(call.given) = Ok(call.items_df)
    /\ call.pc = "ranked" =>
          call.top_products = get_top_products(call.items_df, call.top_n, call.tie)

\* C23: two invocations of extract and rank that run interleaved, each on its
\* own input, are independent: each returns exactly what it returns when run
\* alone, and neither changes the input or the result of the other.
SessionsIndependent ==
    pc = "sessions" => \A s \in Sessions : ReturnsAsAlone(sessions.call[s])

BothSessionsRanked ==
    /\ pc = "sessions"
    /\ \A s \in Sessions :
          /\ sessions.call[s].pc = "ranked"
          /\ sessions.call[s].top_products.rows # <<>>
    /\ sessions.call[1].given # sessions.call[2].given
    /\ sessions.call[1].top_products # sessions.call[2].top_products
====
